---------------------------- MODULE Spec2Model ----------------------------
(***************************************************************************)
(* A model of src/git_manager.py: the GitManager class, whose methods run  *)
(* the git command line through subprocess.run, and the __main__ script    *)
(* that calls them in a fixed order.                                       *)
(*                                                                         *)
(* Text (the standard output of git, the lines of a report) is a sequence  *)
(* of tokens: single characters where the code looks at characters         *)
(* (status codes, the first characters of a diff line, "\n"), and whole    *)
(* words elsewhere (a path, a branch name).                                *)
(*                                                                         *)
(* The repository on disk is the record git; every git command is an       *)
(* operator from that record to an exit status, a standard output and the  *)
(* record after the command.                                               *)
(***************************************************************************)
EXTENDS Integers, Sequences, FiniteSets, TLC

\* Bounds of the model.
MaxCalls == 2      \* method calls a client makes on one manager
MaxClock == 1      \* seconds of the wall clock, 0..MaxClock

-----------------------------------------------------------------------------
\* Values

\* A URL is its text between the "/" characters; the last part is cut
\* where ".git" stands.
Url == <<<<"https:">>, <<>>, <<"host">>, <<"org">>, <<"myrepo", ".git">>>>
OtherUrl == <<<<"https:">>, <<>>, <<"host">>, <<"org">>, <<"other", ".git">>>>
NoUrl == <<>>
P1 == "src/git_manager.py"          \* the file the script stages
P2 == "README.md"
Paths == {P1, P2}
PathOrder == <<P2, P1>>             \* git lists paths in byte order
BranchNames == {"main", "feature"}
Message == "Updated project"

\* What config.json can be: no file, text that is not JSON, or a JSON
\* object with or without each of the two keys.
\* keys are the keys of the object; a key that is not there has no value,
\* and its field below is never read.
ConfigObjects ==
    {[keys |-> ks,
      remote_url |-> IF "remote_url" \in ks THEN Url ELSE NoUrl,
      branch_name |-> IF "branch_name" \in ks THEN b ELSE ""] :
        ks \in SUBSET {"remote_url", "branch_name"}, b \in BranchNames}
CfgFiles ==
    {[kind |-> k, object |-> [keys |-> {}, remote_url |-> NoUrl, branch_name |-> ""]] :
        k \in {"missing", "malformed"}}
    \cup {[kind |-> "object", object |-> o] : o \in ConfigObjects}

NoConfig == [keys |-> {}, remote_url |-> NoUrl, branch_name |-> ""]

\* A file of the working tree: not there, tracked and unchanged, tracked
\* with an unstaged change, untracked, or with a staged change.
FileStates == {"absent", "clean", "modified", "untracked", "staged"}

\* The change made to a modified file: the lines removed and the lines
\* added, each line a sequence of characters.
PlainEdit == [removed |-> <<<<"h", "i">>>>, added |-> <<<<"y", "o">>>>]
Edits ==
    { PlainEdit,
      [removed |-> <<>>, added |-> <<<<"+", "+", "i">>>>],
      [removed |-> <<<<"-", "-", "j">>>>, added |-> <<<<"x">>>>],
      [removed |-> <<<<"-">>>>, added |-> <<<<"@", "@">>, <<"+">>>>] }

-----------------------------------------------------------------------------
\* Text helpers

RECURSIVE Flatten(_)
Flatten(ss) == IF ss = <<>> THEN <<>> ELSE Head(ss) \o Flatten(Tail(ss))

\* Each line followed by a line break, as git prints them.
Unlines(ls) == Flatten([i \in 1..Len(ls) |-> ls[i] \o <<"\n">>])

\* str.split("\n")
RECURSIVE SplitAcc(_, _)
SplitAcc(s, cur) ==
    IF s = <<>> THEN <<cur>>
    ELSE IF Head(s) = "\n" THEN <<cur>> \o SplitAcc(Tail(s), <<>>)
    ELSE SplitAcc(Tail(s), Append(cur, Head(s)))
Split(s) == SplitAcc(s, <<>>)

IsSpace(c) == c \in {" ", "\n"}

\* str.strip()
RECURSIVE LStrip(_)
LStrip(s) == IF s # <<>> /\ IsSpace(Head(s)) THEN LStrip(Tail(s)) ELSE s
RECURSIVE RStrip(_)
RStrip(s) ==
    IF s # <<>> /\ IsSpace(s[Len(s)]) THEN RStrip(SubSeq(s, 1, Len(s) - 1)) ELSE s
Strip(s) == RStrip(LStrip(s))

\* str.startswith(prefix)
StartsWith(s, prefix) ==
    Len(s) >= Len(prefix) /\ SubSeq(s, 1, Len(prefix)) = prefix

\* s[n:]
DropFirst(s, n) == SubSeq(s, n + 1, Len(s))

-----------------------------------------------------------------------------
\* The git command line. Each command gives its exit status rc, its standard
\* output out and the repository g after it. A command that fails prints
\* its message on the standard error, so its out is empty.

Result(rc, out, g) == [rc |-> rc, out |-> out, g |-> g]

RemoteOrder == <<"origin", "upstream">>
RemoteNames(g) == {r.name : r \in g.remotes}
HasCommits(g) == g.head \in g.branches

\* git init; ok is whether the directory can be written.
GitInit(g, ok) ==
    IF ~ok THEN Result(1, <<>>, g)
    ELSE Result(0, <<"Initialized">>, [g EXCEPT !.repo = TRUE])

\* git remote
GitRemote(g) ==
    IF ~g.repo THEN Result(128, <<>>, g)
    ELSE LET names == SelectSeq(RemoteOrder, LAMBDA n : n \in RemoteNames(g))
         IN  Result(0, Unlines([i \in 1..Len(names) |-> <<names[i]>>]), g)

\* git remote add <name> <url>
GitRemoteAdd(g, name, url) ==
    IF ~g.repo THEN Result(128, <<>>, g)
    ELSE IF name \in RemoteNames(g) THEN Result(3, <<>>, g)
    ELSE Result(0, <<>>,
                [g EXCEPT !.remotes = @ \cup {[name |-> name, url |-> url]}])

\* git branch --show-current; ok is whether this git knows the option
\* (git before 2.22 does not, prints its usage on the standard error and
\* exits with 129).
GitShowCurrent(g, ok) ==
    IF ~g.repo THEN Result(128, <<>>, g)
    ELSE IF ~ok THEN Result(129, <<>>, g)
    ELSE Result(0, <<g.head, "\n">>, g)

\* git checkout -b <name>: refused when the branch exists. On a repository
\* without commits it only renames the branch to be born.
GitCheckoutB(g, name) ==
    IF ~g.repo \/ name \in g.branches THEN Result(128, <<>>, g)
    ELSE Result(0, <<>>,
                [g EXCEPT !.head = name,
                          !.branches = IF HasCommits(g) THEN @ \cup {name} ELSE @])

StageFile(st) == IF st \in {"modified", "untracked"} THEN "staged" ELSE st

\* git add <pattern>
GitAdd(g, pattern) ==
    IF ~g.repo THEN Result(128, <<>>, g)
    ELSE IF pattern = "."
    THEN Result(0, <<>>, [g EXCEPT !.tree = [p \in Paths |-> StageFile(g.tree[p])]])
    ELSE IF g.tree[pattern] = "absent" THEN Result(128, <<>>, g)
    ELSE Result(0, <<>>, [g EXCEPT !.tree[pattern] = StageFile(@)])

\* git commit -m <message>: fails when nothing is staged.
GitCommit(g, message) ==
    IF ~g.repo THEN Result(128, <<>>, g)
    ELSE IF \A p \in Paths : g.tree[p] # "staged" THEN Result(1, <<"nothing to commit">>, g)
    ELSE Result(0, <<"committed">>,
                [g EXCEPT !.tree = [p \in Paths |-> IF g.tree[p] = "staged"
                                                     THEN "clean" ELSE g.tree[p]],
                          !.branches = @ \cup {g.head},
                          !.subject = message])

\* git push -u|-f <remote> <branch>; net is whether the remote accepts it.
GitPush(g, remote, branch, net) ==
    IF ~g.repo THEN Result(128, <<>>, g)
    ELSE IF remote \notin RemoteNames(g) THEN Result(128, <<>>, g)
    ELSE IF branch \notin g.branches \/ ~net THEN Result(1, <<>>, g)
    ELSE Result(0, <<>>, [g EXCEPT !.pushed = @ \cup {branch}])

\* git log -1 --pretty=format:%s
GitLogSubject(g) ==
    IF ~g.repo \/ ~HasCommits(g) THEN Result(128, <<>>, g)
    ELSE Result(0, <<g.subject>>, g)

\* git log -1 --pretty=format:%ci
GitLogDate(g) ==
    IF ~g.repo \/ ~HasCommits(g) THEN Result(128, <<>>, g)
    ELSE Result(0, <<"date of ", g.subject>>, g)

\* git rev-parse --abbrev-ref HEAD
GitRevParse(g) ==
    IF ~g.repo THEN Result(128, <<>>, g)
    ELSE IF ~HasCommits(g) THEN Result(128, <<"HEAD", "\n">>, g)
    ELSE Result(0, <<g.head, "\n">>, g)

\* The two status letters of git status --porcelain.
StatusCode(st) ==
    CASE st = "modified" -> <<" ", "M">>
      [] st = "staged" -> <<"M", " ">>
      [] st = "untracked" -> <<"?", "?">>

\* git status --porcelain: one line "XY path" for each file that is not
\* clean. The program's own logs/ and reports/ are ignored files (.gitignore)
\* and are not listed.
GitStatus(g) ==
    IF ~g.repo THEN Result(128, <<>>, g)
    ELSE LET dirty == SelectSeq(PathOrder,
                                LAMBDA p : g.tree[p] \notin {"absent", "clean"})
         IN  Result(0, Unlines([i \in 1..Len(dirty) |->
                                  StatusCode(g.tree[dirty[i]]) \o <<" ", dirty[i]>>]), g)

\* The header of the diff of a file: it names the file and its two sides.
DiffHeader(p) ==
    << <<"d", "i", "f", "f", " --git ", p>>,
       <<"i", "n", "d", "e", "x">>,
       <<"-", "-", "-", " ", "a/", p>>,
       <<"+", "+", "+", " ", "b/", p>> >>

\* The hunk of a change: its header, each removed line after a "-" and each
\* added line after a "+".
DiffHunk(e) ==
    << <<"@", "@", " ", "-1 +1", " ", "@", "@">> >>
    \o [i \in 1..Len(e.removed) |-> <<"-">> \o e.removed[i]]
    \o [i \in 1..Len(e.added) |-> <<"+">> \o e.added[i]]

\* The unified diff of one file with no context lines: the header, then one
\* hunk with the lines removed and the lines added.
DiffText(p, e) == Unlines(DiffHeader(p) \o DiffHunk(e))

\* git diff --unified=0 <file>: the unstaged change of a tracked file;
\* nothing for a file that is untracked or has only a staged change, and an
\* error for an argument that names no file.
GitDiff(g, file) ==
    IF ~g.repo THEN Result(128, <<>>, g)
    ELSE IF Len(file) # 1 \/ file[1] \notin Paths THEN Result(128, <<>>, g)
    ELSE IF g.tree[file[1]] # "modified" THEN Result(0, <<>>, g)
    ELSE Result(0, DiffText(file[1], g.edit[file[1]]), g)

-----------------------------------------------------------------------------
\* The state

VARIABLES
    mode,       \* "main": the __main__ script runs; "api": a client calls methods
    pc,         \* the script's next step, or "ready", "done", "aborted"
    ncalls,     \* method calls the client has made
    script,     \* the methods the script has called, in order
    cfgFile,    \* config.json
    config,     \* self.config
    selfInit,   \* self.init
    git,        \* the repository and the working tree on disk
    clock,      \* the wall clock, in seconds
    reports,    \* the files of reports/
    nReports,   \* generate_report calls that have written their report
    lastOp,     \* the last method called, with its argument
    raised,     \* the exception the last method raised, or "none"
    lastLog,    \* what the last method logged
    lastCalls,  \* the git commands the last method ran, each with its exit status
    invoked,    \* every git command run so far
    cpOutcome   \* how the last commit_and_push went

vars == <<mode, pc, ncalls, script, cfgFile, config, selfInit, git, clock,
          reports, nReports, lastOp, raised, lastLog, lastCalls, invoked,
          cpOutcome>>

MainSteps == <<"construct", "initialize_git", "add_remote_url", "create_branch",
               "add_to_staging", "commit_and_push", "generate_report", "done">>

\* The step after op in the script.
NextStep(op) ==
    LET i == CHOOSE k \in 1..(Len(MainSteps) - 1) : MainSteps[k] = op
    IN  MainSteps[i + 1]

\* The method op can be called now: it is the script's next step, or the
\* client calls it.
Callable(op) ==
    \/ mode = "main" /\ pc = op
    \/ mode = "api" /\ pc = "ready" /\ ncalls < MaxCalls

\* Where control goes when op ends having raised exc: an exception is not
\* caught by the script, which ends; a client may call again.
Return(op, arg, exc) ==
    /\ raised' = exc
    /\ lastOp' = [name |-> op, arg |-> arg]
    /\ pc' = IF mode = "api" THEN "ready"
             ELSE IF exc = "none" THEN NextStep(op) ELSE "aborted"
    /\ ncalls' = IF mode = "api" THEN ncalls + 1 ELSE ncalls
    /\ script' = IF mode = "main" THEN Append(script, op) ELSE script

Call(cmd, r) == [cmd |-> cmd, rc |-> r.rc]
Cmds(calls) == {calls[i].cmd : i \in 1..Len(calls)}
Ran(calls) ==
    /\ lastCalls' = calls
    /\ invoked' = invoked \cup Cmds(calls)

Info(msg) == [level |-> "INFO", msg |-> msg]
Error(msg) == [level |-> "ERROR", msg |-> msg]

\* subprocess.run(..., check=True) raises when the exit status is not 0.
Check(r) == IF r.rc = 0 THEN "none" ELSE "CalledProcessError"

-----------------------------------------------------------------------------
\* GitManager

\* A load_config that reads a missing or unparsable file as an empty object.
LoadConfigLenient(file) == [exc |-> "none", value |-> file.object]

\* load_config: open() and json.load().
LoadConfig(file) ==
    CASE file.kind = "missing" -> [exc |-> "FileNotFoundError", value |-> NoConfig]
      [] file.kind = "malformed" -> [exc |-> "JSONDecodeError", value |-> NoConfig]
      [] OTHER -> [exc |-> "none", value |-> file.object]

\* dict.get(key, default)
ConfigGet(cfg, key, default) == IF key \in cfg.keys THEN cfg[key] ELSE default

\* __init__
Construct ==
    /\ pc = "construct"
    /\ LET c == LoadConfig(cfgFile)
       IN  /\ config' = c.value
           /\ raised' = c.exc
           /\ IF c.exc = "none"
              THEN /\ selfInit' = git.repo
                   /\ lastLog' = <<Info("Loaded configuration")>>
                   /\ pc' = IF mode = "main" THEN NextStep("construct") ELSE "ready"
              ELSE /\ selfInit' = selfInit
                   /\ lastLog' = <<>>
                   /\ pc' = "aborted"
    /\ lastOp' = [name |-> "construct", arg |-> "config.json"]
    /\ script' = IF mode = "main" THEN Append(script, "construct") ELSE script
    /\ Ran(<<>>)
    /\ UNCHANGED <<mode, ncalls, cfgFile, git, clock, reports, nReports, cpOutcome>>

\* An initialize_git that does not look at self.init.
NeedsInitAlways(flag) == TRUE

\* if not self.init
NeedsInit(flag) == ~flag

\* initialize_git; ok is the outcome of git init.
InitializeGit(ok) ==
    /\ Callable("initialize_git")
    /\ IF NeedsInit(selfInit)
       THEN LET r == GitInit(git, ok)
            IN  /\ git' = r.g
                /\ Ran(<<Call("init", r)>>)
                /\ selfInit' = (r.rc = 0)
                /\ lastLog' = IF r.rc = 0 THEN <<Info("Initialized a new Git repository")>>
                              ELSE <<>>
                /\ Return("initialize_git", "", Check(r))
       ELSE /\ lastLog' = <<Info("Git repository already exists")>>
            /\ Ran(<<>>)
            /\ Return("initialize_git", "", "none")
            /\ UNCHANGED <<git, selfInit>>
    /\ UNCHANGED <<mode, cfgFile, config, clock, reports, nReports, cpOutcome>>

\* An add_remote_url that does not look at the remotes there are.
NoRemotesAlways(out) == TRUE

\* not existing_remotes, of the stripped output of git remote
NoRemotes(out) == Strip(out) = <<>>

\* add_remote_url
AddRemoteUrl ==
    /\ Callable("add_remote_url")
    /\ LET q == GitRemote(git)
           a == GitRemoteAdd(git, "origin", config.remote_url)
       IN  IF NoRemotes(q.out)
           THEN IF "remote_url" \in config.keys
                THEN /\ git' = a.g
                     /\ Ran(<<Call("remote", q), Call("remote add", a)>>)
                     /\ lastLog' = IF a.rc = 0 THEN <<Info("Added remote URL")>> ELSE <<>>
                     /\ Return("add_remote_url", "", Check(a))
                ELSE /\ git' = git
                     /\ Ran(<<Call("remote", q)>>)
                     /\ lastLog' = <<Error("Remote URL not found in the configuration.")>>
                     /\ Return("add_remote_url", "", "none")
           ELSE /\ git' = git
                /\ Ran(<<Call("remote", q)>>)
                /\ lastLog' = <<Info("Remote URL already exists.")>>
                /\ Return("add_remote_url", "", "none")
    /\ UNCHANGED <<mode, cfgFile, config, selfInit, clock, reports, nReports, cpOutcome>>

\* create_branch; ok is the outcome of git branch --show-current.
CreateBranch(ok) ==
    /\ Callable("create_branch")
    /\ LET branch_name == ConfigGet(config, "branch_name", "main")
           q == GitShowCurrent(git, ok)
           current_branch == Strip(q.out)
           c == GitCheckoutB(git, branch_name)
       IN  IF current_branch # <<branch_name>>
           THEN /\ git' = c.g
                /\ Ran(<<Call("branch --show-current", q), Call("checkout -b", c)>>)
                /\ lastLog' = IF c.rc = 0 THEN <<Info("Created and switched to branch")>>
                              ELSE <<>>
                /\ Return("create_branch", branch_name, Check(c))
           ELSE /\ git' = git
                /\ Ran(<<Call("branch --show-current", q)>>)
                /\ lastLog' = <<Info("Already on branch")>>
                /\ Return("create_branch", branch_name, "none")
    /\ UNCHANGED <<mode, cfgFile, config, selfInit, clock, reports, nReports, cpOutcome>>

\* os.path.exists(path), for "." and the paths of the working tree.
PathExists(g, path) == path = "." \/ g.tree[path] # "absent"

\* An add_to_staging that does not check that the path exists.
SkipsStagingNever(g, file_pattern) == FALSE

\* if file_pattern != "." and not os.path.exists(file_pattern)
SkipsStaging(g, file_pattern) == file_pattern # "." /\ ~PathExists(g, file_pattern)

\* add_to_staging(file_pattern)
AddToStaging(file_pattern) ==
    /\ Callable("add_to_staging")
    /\ IF SkipsStaging(git, file_pattern)
       THEN /\ lastLog' = <<Error("Cannot stage: does not exist.")>>
            /\ Ran(<<>>)
            /\ git' = git
            /\ Return("add_to_staging", file_pattern, "none")
       ELSE LET r == GitAdd(git, file_pattern)
            IN  /\ git' = r.g
                /\ Ran(<<Call("add", r)>>)
                /\ lastLog' = IF r.rc = 0 THEN <<Info("Staged files matching pattern")>>
                              ELSE <<>>
                /\ Return("add_to_staging", file_pattern, Check(r))
    /\ UNCHANGED <<mode, cfgFile, config, selfInit, clock, reports, nReports, cpOutcome>>

\* A commit_and_push without its except clause.
ExceptNothing(exc) == [exc |-> exc, log |-> <<>>]

\* except subprocess.CalledProcessError: the error is logged and not raised
\* again.
ExceptCalledProcessError(exc) ==
    IF exc = "CalledProcessError"
    THEN [exc |-> "none", log |-> <<Error("Error in committing or pushing")>>]
    ELSE [exc |-> exc, log |-> <<>>]

\* commit_and_push(message, force); net is the outcome of the push at the
\* remote. The success of a push is logged only for a forced push.
CommitAndPush(message, force, net) ==
    /\ Callable("commit_and_push")
    /\ LET c == GitCommit(git, message)
           branch_name == ConfigGet(config, "branch_name", "main")
           p == GitPush(c.g, "origin", branch_name, net)
           push == IF force THEN "push -f" ELSE "push -u"
           arg == IF force THEN "force=True" ELSE "force=False"
       IN  IF c.rc # 0
           THEN LET h == ExceptCalledProcessError(Check(c))
                IN  /\ git' = c.g
                    /\ Ran(<<Call("commit", c)>>)
                    /\ lastLog' = h.log
                    /\ cpOutcome' = "commit failed"
                    /\ Return("commit_and_push", arg, h.exc)
           ELSE LET h == ExceptCalledProcessError(Check(p))
                IN  /\ git' = p.g
                    /\ Ran(<<Call("commit", c), Call(push, p)>>)
                    /\ lastLog' = <<Info("Committed changes with message")>>
                                  \o (IF p.rc = 0 /\ force
                                      THEN <<Info("Pushed changes to remote repository")>>
                                      ELSE <<>>)
                                  \o h.log
                    /\ cpOutcome' = IF p.rc # 0 THEN "push failed" ELSE "pushed"
                    /\ Return("commit_and_push", arg, h.exc)
    /\ UNCHANGED <<mode, cfgFile, config, selfInit, clock, reports, nReports>>

\* The repository name of the report: the last part of the URL without
\* ".git", or "Unknown".
RepoName(cfg) ==
    LET url == ConfigGet(cfg, "remote_url", <<<<"Unknown">>>>)
    IN  SelectSeq(url[Len(url)], LAMBDA t : t # ".git")

\* The paths of a status output: what follows the third column of each
\* line that is not empty.
ChangedFiles(status) ==
    LET lines == SelectSeq(Split(status), LAMBDA line : line # <<>>)
    IN  [i \in 1..Len(lines) |-> DropFirst(lines[i], 3)]

\* Whether the report repeats a line of a diff: an added line, a removed
\* line or a hunk header, told by the first characters of the line.
Emitted(line) ==
    \/ StartsWith(line, <<"+">>) /\ ~StartsWith(line, <<"+", "+", "+">>)
    \/ StartsWith(line, <<"-">>) /\ ~StartsWith(line, <<"-", "-", "-">>)
    \/ StartsWith(line, <<"@", "@">>)

\* What the report holds for one changed file: its name, then the lines of
\* its diff that are repeated, or that it has no content changes.
FileSection(file, diff_output) ==
    << <<"File Checked: ">> \o file, <<"-*70">> >>
    \o (IF diff_output # <<>>
        THEN << <<"File: ">> \o file, <<"=*50">> >>
             \o SelectSeq(Split(diff_output), Emitted)
             \o << <<>>, <<"=*70">>, <<>> >>
        ELSE << <<"No content changes detected.">> >>)

\* The changed files of the report.
ReportBody(g, changed_files) ==
    IF changed_files # <<>>
    THEN << <<"=*50">>, <<"Modified Files and Changes">>, <<"=*50">> >>
         \o Flatten([i \in 1..Len(changed_files) |->
                        FileSection(changed_files[i], GitDiff(g, changed_files[i]).out)])
    ELSE << <<"No files changes detected.">> >>

\* The text of the report.
ReportText(g, cfg, now) ==
    LET last_commit == GitLogSubject(g).out
        last_commit_date == GitLogDate(g).out
        status == GitStatus(g).out
    IN  [generated |-> now,
         repository |-> RepoName(cfg),
         branch |-> ConfigGet(cfg, "branch_name", "main"),
         lastCommit |-> IF last_commit # <<>> THEN last_commit ELSE <<"(No commits yet)">>,
         lastCommitDate |-> IF last_commit_date # <<>> THEN last_commit_date ELSE <<"N/A">>,
         changesPushed |-> IF status # <<>> THEN "No" ELSE "Yes",
         status |-> IF status # <<>> THEN "Uncommitted Changes Detected" ELSE "Up to date",
         body |-> ReportBody(g, ChangedFiles(status))]

\* The name of the report file: the time to the second.
ReportPath(now) == <<"reports/git_report_", now, ".txt">>

\* open(path, "w") and the writes: the file is created, or emptied when it
\* is there, and holds the text; serial tells which call wrote it.
WriteFile(files, path, serial, text) ==
    {f \in files : f.path # path} \cup {[path |-> path, serial |-> serial, text |-> text]}

\* The git commands of a report: the queries, then a diff for each changed
\* file.
ReportCalls(g) ==
    LET files == ChangedFiles(GitStatus(g).out)
    IN  <<Call("log", GitLogSubject(g)), Call("log", GitLogDate(g)),
          Call("rev-parse", GitRevParse(g)), Call("status", GitStatus(g))>>
        \o [i \in 1..Len(files) |-> Call("diff", GitDiff(g, files[i]))]

\* generate_report; now is the second the clock shows: the one it showed
\* the last time it was read, or a later one.
GenerateReport(now) ==
    /\ Callable("generate_report")
    /\ now <= MaxClock
    /\ clock' = now
    /\ nReports' = nReports + 1
    /\ reports' = WriteFile(reports, ReportPath(now), nReports + 1,
                            ReportText(git, config, now))
    /\ Ran(ReportCalls(git))
    /\ lastLog' = <<Info("Git report saved")>>
    /\ Return("generate_report", "", "none")
    /\ UNCHANGED <<mode, cfgFile, config, selfInit, git, cpOutcome>>

-----------------------------------------------------------------------------
\* The directory the program starts in

Tree(states) == [Paths -> states]
PlainEdits == [p \in Paths |-> PlainEdit]

\* No repository: the files are only files; head is the branch git init
\* will start.
NoRepoStates(edits) ==
    {[repo |-> FALSE, remotes |-> {}, branches |-> {}, head |-> h, tree |-> t,
      subject |-> "", pushed |-> {}, edit |-> e] :
        h \in {"master", "main"}, t \in Tree({"absent", "untracked"}), e \in edits}

\* A repository without commits: the branch is still to be born and no
\* file is tracked.
UnbornStates(edits) ==
    {[repo |-> TRUE, remotes |-> r, branches |-> {}, head |-> h, tree |-> t,
      subject |-> "", pushed |-> {}, edit |-> e] :
        r \in {{}, {[name |-> "origin", url |-> OtherUrl]},
               {[name |-> "upstream", url |-> OtherUrl]}},
        h \in {"master", "main"},
        t \in Tree({"absent", "untracked", "staged"}), e \in edits}

\* The branches of a repository with commits, and the one checked out.
BranchHeads == {bh \in (SUBSET BranchNames) \X BranchNames : bh[2] \in bh[1]}

\* A repository with commits, on one of its branches.
BornStates(edits) ==
    {[repo |-> TRUE, remotes |-> r, branches |-> bh[1], head |-> bh[2], tree |-> t,
      subject |-> "Initial commit", pushed |-> {}, edit |-> e] :
        r \in {{}, {[name |-> "origin", url |-> OtherUrl]},
               {[name |-> "upstream", url |-> OtherUrl]}},
        bh \in BranchHeads,
        t \in Tree(FileStates), e \in edits}

GitStates(edits) ==
    NoRepoStates(edits) \cup UnbornStates(edits) \cup BornStates(edits)

InitWith(modes, gits) ==
    /\ mode \in modes
    /\ pc = "construct"
    /\ ncalls = 0
    /\ script = <<>>
    /\ cfgFile \in CfgFiles
    /\ config = NoConfig
    /\ selfInit = FALSE
    /\ git \in gits
    /\ clock = 0
    /\ reports = {}
    /\ nReports = 0
    /\ lastOp = [name |-> "none", arg |-> ""]
    /\ raised = "none"
    /\ lastLog = <<>>
    /\ lastCalls = <<>>
    /\ invoked = {}
    /\ cpOutcome = "none"

\* The script starts in any directory; the client of the methods starts in
\* one where README.md is no change to stage.
ClientStates == {g \in GitStates({PlainEdits}) : g.tree[P2] \in {"absent", "clean"}}

Init ==
    \/ InitWith({"main"}, GitStates({PlainEdits}))
    \/ InitWith({"api"}, ClientStates)

\* The directories a report is written in: a repository with any change
\* in its modified files.
ReportStates ==
    {g \in UnbornStates({PlainEdits}) \cup BornStates([Paths -> Edits]) :
        /\ g.remotes = {}
        /\ \A p \in Paths : g.tree[p] # "modified" => g.edit[p] = PlainEdit}

InitReport == InitWith({"api"}, ReportStates)

Patterns == IF mode = "main" THEN {P1} ELSE {"."} \cup Paths
Forces == IF mode = "main" THEN {TRUE} ELSE BOOLEAN

Next ==
    \/ Construct
    \/ \E ok \in BOOLEAN : InitializeGit(ok)
    \/ AddRemoteUrl
    \/ \E ok \in BOOLEAN : CreateBranch(ok)
    \/ \E file_pattern \in Patterns : AddToStaging(file_pattern)
    \/ \E force \in Forces, net \in BOOLEAN : CommitAndPush(Message, force, net)
    \/ \E now \in {clock, clock + 1} : GenerateReport(now)

Spec == Init /\ [][Next]_vars

\* A client that only writes reports.
NextReport ==
    \/ Construct
    \/ \E now \in {clock, clock + 1} : GenerateReport(now)

SpecReport == InitReport /\ [][NextReport]_vars

-----------------------------------------------------------------------------
\* Reading the state

\* The step just taken is a call of the method op.
StepOf(op) ==
    /\ lastOp'.name = op
    /\ ncalls' = ncalls + 1 \/ Len(script') = Len(script) + 1

Failed(calls) == \E i \in 1..Len(calls) : calls[i].rc # 0
Logged(log, level) == \E i \in 1..Len(log) : log[i].level = level
CommitOrPushFailed == cpOutcome \in {"commit failed", "push failed"}

\* The report the last generate_report call has written.
LastReports == {f \in reports : f.serial = nReports}

-----------------------------------------------------------------------------
\* C1. When the commit or the push of commit_and_push(message, force) exits
\* with a status that is not 0, with force true or false, the error is
\* logged and the method returns normally; in the script the next step is
\* then generate_report, which can be taken, and when the script has ended
\* it has ended normally and generate_report has written a report file.
C1_FailureCaughtAndReportRuns ==
    /\ (lastOp.name = "commit_and_push" /\ Failed(lastCalls))
           => /\ raised = "none"
              /\ Logged(lastLog, "ERROR")
              /\ mode = "main" => pc = "generate_report"
    /\ (mode = "main" /\ CommitOrPushFailed)
           => /\ pc \in {"generate_report", "done"}
              /\ pc = "done" => nReports = 1 /\ LastReports # {}

\* The script has ended with a report after a push that failed.
C1_Witness ==
    /\ mode = "main"
    /\ pc = "done"
    /\ cpOutcome = "push failed"
    /\ LastReports # {}

\* C2. When the script has ended after a commit or a push of
\* commit_and_push that failed, the report it has written does not say
\* "Changes Pushed: Yes".
C2_ReportShowsFailure ==
    (mode = "main" /\ pc = "done" /\ CommitOrPushFailed)
        => \A f \in LastReports : f.text.changesPushed # "Yes"

\* C3. With config.json missing or not JSON the constructor raises, the
\* script ends there, no git command is ever run and no report is written.
C3_BadConfigAborts ==
    cfgFile.kind \in {"missing", "malformed"}
        => /\ pc \in {"construct", "aborted"}
           /\ pc = "aborted" => raised \in {"FileNotFoundError", "JSONDecodeError"}
           /\ invoked = {}
           /\ lastCalls = <<>>
           /\ reports = {}
           /\ nReports = 0
           /\ script \in {<<>>, <<"construct">>}

\* The constructor has raised on a config.json that is not JSON.
C3_Witness ==
    /\ cfgFile.kind = "malformed"
    /\ pc = "aborted"
    /\ raised = "JSONDecodeError"

\* C4. An initialize_git call on a manager whose self.init is false runs
\* git init once and, when git init succeeds, the repository is there and
\* self.init is true. self.init never becomes false again, whatever is
\* called, and an initialize_git call with self.init true runs no command,
\* raises nothing and leaves the repository as it is.
C4_InitializeGitIdempotent ==
    [][/\ selfInit => selfInit'
       /\ (StepOf("initialize_git") /\ ~selfInit)
              => /\ lastCalls'[1].cmd = "init" /\ Len(lastCalls') = 1
                 /\ lastCalls'[1].rc = 0
                        => git'.repo /\ selfInit' /\ raised' = "none"
       /\ (StepOf("initialize_git") /\ selfInit)
              => /\ lastCalls' = <<>>
                 /\ raised' = "none"
                 /\ git' = git]_vars

\* A manager made where there was no repository has run git init, and its
\* last initialize_git call has run nothing.
C4_Witness ==
    /\ "init" \in invoked
    /\ lastOp.name = "initialize_git"
    /\ lastCalls = <<>>
    /\ raised = "none"
    /\ git.repo

\* C5. An add_remote_url call in a repository: with no remote and a
\* remote_url in the configuration it registers the one remote origin with
\* that URL; with a remote there it adds none, leaves the remotes as they
\* are and raises nothing; with no remote and no remote_url it adds none,
\* logs an error and returns normally. So no sequence of calls registers
\* more than one remote.
C5_AddRemoteUrl ==
    [][(StepOf("add_remote_url") /\ git.repo)
          => /\ raised' = "none"
             /\ git.remotes = {} /\ "remote_url" \in config.keys
                    => git'.remotes = {[name |-> "origin", url |-> config.remote_url]}
             /\ git.remotes # {}
                    => git'.remotes = git.remotes /\ "remote add" \notin Cmds(lastCalls')
             /\ git.remotes = {} /\ "remote_url" \notin config.keys
                    => /\ git'.remotes = {}
                       /\ "remote add" \notin Cmds(lastCalls')
                       /\ Logged(lastLog', "ERROR")
             /\ Cardinality(git.remotes) <= 1 => Cardinality(git'.remotes) <= 1]_vars

\* A first call has added the remote and the last call has added none.
C5_Witness ==
    /\ "remote add" \in invoked
    /\ lastOp.name = "add_remote_url"
    /\ "remote add" \notin Cmds(lastCalls)
    /\ git.remotes = {[name |-> "origin", url |-> Url]}

\* C6. A create_branch call in a repository, when git tells the current
\* branch: if that is the target, no checkout is run; if it is not, the
\* current branch is the target afterwards, whatever branches exist.
C6_CreateBranch ==
    [][(StepOf("create_branch") /\ git.repo /\ ~Failed(SubSeq(lastCalls', 1, 1)))
          => IF git.head = ConfigGet(config, "branch_name", "main")
             THEN "checkout -b" \notin Cmds(lastCalls')
             ELSE git'.head = ConfigGet(config, "branch_name", "main")]_vars

\* C7. add_to_staging(pattern) with a pattern other than "." whose path
\* does not exist runs no git command, leaves the repository and the
\* staging area as they are, logs an error and returns normally;
\* add_to_staging(".") always runs git add.
C7_AddToStaging ==
    [][/\ (StepOf("add_to_staging") /\ lastOp'.arg # "."
              /\ git.tree[lastOp'.arg] = "absent")
             => /\ lastCalls' = <<>>
                /\ git' = git
                /\ Logged(lastLog', "ERROR")
                /\ raised' = "none"
       /\ (StepOf("add_to_staging") /\ lastOp'.arg = ".")
             => Cmds(lastCalls') = {"add"}]_vars

\* add_to_staging was called with a path that does not exist.
C7_Witness ==
    /\ lastOp = [name |-> "add_to_staging", arg |-> P1]
    /\ git.tree[P1] = "absent"
    /\ lastCalls = <<>>
    /\ Logged(lastLog, "ERROR")

\* The files git status lists, in its order.
DirtyPaths(g) == SelectSeq(PathOrder, LAMBDA p : g.tree[p] \notin {"absent", "clean"})

IsFileLine(line) == StartsWith(line, <<"File Checked: ">>)

\* The lines of body after line i, up to the next changed file.
RECURSIVE SectionAfter(_, _)
SectionAfter(body, i) ==
    IF i + 1 > Len(body) \/ IsFileLine(body[i + 1]) THEN <<>>
    ELSE <<body[i + 1]>> \o SectionAfter(body, i + 1)

\* C8. The report of a clean working tree says "Up to date" and lists no
\* changed file. The report of a dirty one names every file of the status
\* once, and after the name come the lines of the file's diff, which are
\* its hunk header, its removed lines and its added lines, or the line "No
\* content changes detected.".
C8_ReportListsChanges ==
    (lastOp.name = "generate_report" /\ git.repo)
        => \A f \in LastReports :
              LET body == f.text.body
                  dirty == DirtyPaths(git)
              IN  IF dirty = <<>>
                  THEN /\ f.text.status = "Up to date"
                       /\ \A i \in 1..Len(body) : ~IsFileLine(body[i])
                  ELSE \A k \in 1..Len(dirty) :
                          /\ Cardinality({i \in 1..Len(body) :
                                 body[i] = <<"File Checked: ", dirty[k]>>}) = 1
                          /\ \A i \in 1..Len(body) :
                                 body[i] = <<"File Checked: ", dirty[k]>>
                                    => \/ SectionAfter(body, i)
                                            = << <<"-*70">>, <<"No content changes detected.">> >>
                                       \/ SectionAfter(body, i)
                                            = << <<"-*70">>, <<"File: ", dirty[k]>>, <<"=*50">> >>
                                              \o DiffHunk(git.edit[dirty[k]])
                                              \o << <<>>, <<"=*70">>, <<>> >>

\* C9. Every generate_report call has its own file in reports/: the file
\* of no earlier call has been written over.
C9_ReportsKept ==
    \A k \in 1..nReports : \E f \in reports : f.serial = k

\* C10. The script calls its steps in the fixed order, each at most once,
\* and after a step other than commit_and_push in which a git command has
\* exited with a status that is not 0 it calls no further step.
C10_OrderAndAbort ==
    [][/\ mode' = "main" => script' = SubSeq(MainSteps, 1, Len(script'))
       /\ (mode = "main" /\ lastOp.name # "commit_and_push" /\ Failed(lastCalls))
             => script' = script]_vars

=============================================================================
